---- MODULE Spec2Model ----
(***************************************************************************)
(* Model of processor_app.py: the Server thread (connect with retry, the   *)
(* blocking receive loop) and the App render-tick tasks (conversion,       *)
(* server_mon, the frame render), sharing conversion_queue, image_lock and *)
(* the image_width / image_height / image_data snapshot.                   *)
(* Bytes are naturals 0..255; the socket is a byte stream `wire` from the  *)
(* peer and the bytes `resp` written back for the current message.         *)
(***************************************************************************)
EXTENDS Integers, Sequences, FiniteSets, TLC

\* ---------------------------------------------------------------- bounds
MaxMsgs == 2

\* ------------------------------------------------------ program constants
USE_THREAD == TRUE

\* (InitialAttemptsOff: the retry budget off by one)
InitialAttemptsOff == 3 + 1
InitialAttempts == 3

ContentAck == 0

\* (UnknownAckWrong: a non-zero acknowledgement byte)
UnknownAckWrong == 0 + 1
UnknownAck == 0

ExitFailStatus == 255
ExitMonStatus == 0

\* ------------------------------------------------------------ marshaling
Min(a, b) == IF a < b THEN a ELSE b

Pack16(n) == <<n % 256, (n \div 256) % 256>>

Unpack16(b) == b[1] + 256 * b[2]

Pack32(n) == <<n % 256, (n \div 256) % 256, (n \div 65536) % 256, (n \div 16777216) % 256>>

Unpack32(b) == b[1] + 256 * b[2] + 65536 * b[3] + 16777216 * b[4]

PackHeader(w, h) == Pack16(w) \o Pack16(h)

Take(s, k) == SubSeq(s, 1, k)

Drop(s, k) == SubSeq(s, k + 1, Len(s))

\* The body of a content update is a text document.  The documents of the
\* model are written in a two-form notation: <<1, c>> is a document that
\* sets the background colour c, <<2, w, h>> one whose extras.view carries
\* width w and height h; leading blanks (32) are skipped as json.loads
\* skips white space; every other byte string fails to parse.
RECURSIVE StripBlanks(_)
StripBlanks(b) == IF Len(b) > 0 /\ b[1] = 32 THEN StripBlanks(Tail(b)) ELSE b

JsonValid(b) ==
  LET s == StripBlanks(b) IN
    \/ Len(s) = 2 /\ s[1] = 1
    \/ Len(s) = 3 /\ s[1] = 2

JsonLoads(b) ==
  LET s == StripBlanks(b) IN
    IF s[1] = 1
    THEN [view |-> <<>>, background |-> <<s[2]>>]
    ELSE [view |-> <<s[2], s[3]>>, background |-> <<>>]

\* ------------------------------------------------------------- the peer
Payloads == {<<1, 7>>, <<32, 1, 7>>, <<2, 1, 2>>, <<0>>}

Messages ==
  {[id |-> 0, body |-> p] : p \in Payloads}
    \cup {[id |-> 1, body |-> <<0, 0, 0, 0>>], [id |-> 7, body |-> <<>>]}

Encode(m) ==
  Pack16(m.id) \o (IF m.id = 0 THEN Pack32(Len(m.body)) \o m.body ELSE m.body)

\* Where the peer may go away inside a message: inside the message id, or
\* one byte short of the end (inside the body of a content update).
CutPoints(m) == {1, Len(Encode(m)) - 1}

\* ------------------------------------------------------------ the render
\* An RGB image of w*h pixels cleared to colour c.
Pixels(w, h, c) == [i \in 1..(w * h * 3) |-> c]

NoTexture == [has_ram_image |-> FALSE, x |-> 0, y |-> 0, image |-> <<>>]

VARIABLES
  pc_main, remaining_attempts, attempts, exit_code,
  win, win_id, conv_data, texture, clear_color, bg, background_color,
  queue, image_lock, image_width, image_height, image_data,
  pc_net, msg_id, view_len, data, rcv_size, doc,
  width, height, img_buffer, to_send,
  wire, closed, sent,
  resp, consumed, handled, recvd, drained, published, latest, acked, drain_mark

mainVars == <<pc_main, remaining_attempts, attempts, exit_code,
              win, win_id, conv_data, texture, clear_color, bg, background_color>>
sharedVars == <<queue, image_lock, image_width, image_height, image_data>>
netVars == <<pc_net, msg_id, view_len, data, rcv_size, doc,
             width, height, img_buffer, to_send>>
peerVars == <<wire, closed, sent>>
histVars == <<resp, consumed, handled, recvd, drained, published, latest, acked, drain_mark>>
vars == <<mainVars, sharedVars, netVars, peerVars, histVars>>

Init ==
  /\ pc_main = "connect"
  /\ remaining_attempts = InitialAttempts
  /\ attempts = 0
  /\ exit_code = <<>>
  /\ win = <<1, 1>>
  /\ win_id = 1
  /\ conv_data = <<>>
  /\ texture = NoTexture
  /\ clear_color = 0
  /\ bg = 0
  /\ background_color = 0
  /\ queue = <<>>
  /\ image_lock = "free"
  /\ image_width = 1
  /\ image_height = 1
  /\ image_data = <<0, 0, 0>>
  /\ pc_net = "idle"
  /\ msg_id = 0
  /\ view_len = 0
  /\ data = <<>>
  /\ rcv_size = 0
  /\ doc = <<>>
  /\ width = 0
  /\ height = 0
  /\ img_buffer = <<>>
  /\ to_send = <<>>
  /\ wire = <<>>
  /\ closed = FALSE
  /\ sent = 0
  /\ resp = <<>>
  /\ consumed = 0
  /\ handled = 0
  /\ recvd = <<>>
  /\ drained = <<>>
  /\ published = {<<1, 1, <<0, 0, 0>>>>}
  /\ latest = <<1, 1, <<0, 0, 0>>>>
  /\ acked = 0
  /\ drain_mark = 0

Running == pc_main \notin {"connect", "exited"}

\* ------------------------------------------------- Server.__init__ (connect)
ConnectOK ==
  /\ pc_main = "connect"
  /\ remaining_attempts # 0
  /\ attempts' = attempts + 1
  /\ pc_main' = "conversion"
  /\ pc_net' = IF USE_THREAD THEN "recv_header" ELSE pc_net
  /\ UNCHANGED <<remaining_attempts, exit_code, win, win_id, conv_data, texture, clear_color, bg,
                 background_color, sharedVars, msg_id, view_len, data, rcv_size,
                 doc, width, height, img_buffer, to_send, peerVars, histVars>>

ConnectFail ==
  /\ pc_main = "connect"
  /\ remaining_attempts # 0
  /\ attempts' = attempts + 1
  /\ remaining_attempts' = remaining_attempts - 1
  /\ UNCHANGED <<pc_main, exit_code, win, win_id, conv_data, texture, clear_color, bg,
                 background_color, sharedVars, netVars, peerVars, histVars>>

ConnectExhausted ==
  /\ pc_main = "connect"
  /\ remaining_attempts = 0
  /\ pc_main' = "exited"
  /\ exit_code' = <<ExitFailStatus>>
  /\ UNCHANGED <<remaining_attempts, attempts, win, win_id, conv_data, texture, clear_color, bg,
                 background_color, sharedVars, netVars, peerVars, histVars>>

\* -------------------------------------------------------------- the peer
PeerSend(m) ==
  /\ Running
  /\ ~closed
  /\ sent < MaxMsgs
  /\ wire = <<>>
  /\ wire' = Encode(m)
  /\ sent' = sent + 1
  /\ UNCHANGED <<mainVars, sharedVars, netVars, closed, histVars>>

\* The peer goes away after the first k bytes of a message.
PeerSendTruncated(m, k) ==
  /\ Running
  /\ ~closed
  /\ sent < MaxMsgs
  /\ wire = <<>>
  /\ wire' = Take(Encode(m), k)
  /\ sent' = sent + 1
  /\ closed' = TRUE
  /\ UNCHANGED <<mainVars, sharedVars, netVars, histVars>>

\* The receive calls see the end of the stream only after every byte sent
\* before it, so the close is taken when nothing is left in flight.
PeerClose ==
  /\ Running
  /\ ~closed
  /\ wire = <<>>
  /\ closed' = TRUE
  /\ UNCHANGED <<mainVars, sharedVars, netVars, wire, sent, histVars>>

\* ------------------------------------------------------------ the socket
\* socket.recv(n) / recv_into(view, n): the byte strings one call may
\* return.  It blocks (no result) while nothing has arrived and the peer is
\* still there, returns at most n of the bytes that arrived (a short read),
\* and returns the empty string once the peer has closed and all is read.
RecvResults(n) ==
  IF wire = <<>>
  THEN IF closed THEN {<<>>} ELSE {}
  ELSE {Take(wire, k) : k \in 1..Min(n, Len(wire))}

\* socket.send(buf): the number of bytes one call may accept, 1..len(buf).
SendResults(buf) == 1..Len(buf)

\* threading.Lock.acquire(): blocks until the lock is free.
\* (CanAcquireNoLock: an acquire that never waits)
CanAcquireNoLock == TRUE
CanAcquire == image_lock = "free"

\* queue.Queue.put / get / empty
\* (QueuePutFront: a LIFO put; QueuePutDrop: a put that loses the item)
QueuePutFront(q, x) == <<x>> \o q
QueuePutDrop(q, x) == q
QueuePutTwice(q, x) == Append(Append(q, x), x)
QueuePut(q, x) == Append(q, x)

\* self.conversion_queue.empty()
\* (QueueEmptyNever: the loop calls get() without the test)
QueueEmptyNever(q) == FALSE
QueueEmpty(q) == Len(q) = 0

\* The dispatch on msg_id of Server.run.
Branch(id) ==
  IF id = 0 THEN "recv_size" ELSE IF id = 1 THEN "recv_dt" ELSE "unknown_ack"

IOStates ==
  {"recv_header", "recv_size", "recv_body", "recv_dt", "ack",
   "send_header", "sendall", "unknown_ack"}

\* --------------------------------------------------------------- Server.run
RecvHeader ==
  /\ pc_net = "recv_header"
  /\ \E b \in RecvResults(2) :
       /\ wire' = Drop(wire, Len(b))
       /\ IF Len(b) = 2
          THEN /\ msg_id' = Unpack16(b)
               /\ pc_net' = Branch(Unpack16(b))
               /\ resp' = <<>>
               /\ consumed' = 2
               /\ handled' = handled + 1
          ELSE /\ pc_net' = "dead"
               /\ UNCHANGED <<msg_id, resp, consumed, handled>>
  /\ UNCHANGED <<mainVars, sharedVars, view_len, data, rcv_size, doc, width,
                 height, img_buffer, to_send, closed, sent, recvd, drained,
                 published, latest, acked, drain_mark>>

RecvSize ==
  /\ pc_net = "recv_size"
  /\ \E b \in RecvResults(4) :
       /\ wire' = Drop(wire, Len(b))
       /\ consumed' = consumed + Len(b)
       /\ IF Len(b) = 4
          THEN /\ view_len' = Unpack32(b)
               /\ data' = <<>>
               /\ pc_net' = IF Unpack32(b) > 0 THEN "recv_body" ELSE "decode"
               /\ recvd' = IF Unpack32(b) > 0 THEN recvd ELSE Append(recvd, <<>>)
          ELSE /\ pc_net' = "dead"
               /\ UNCHANGED <<view_len, data, recvd>>
  /\ UNCHANGED <<mainVars, sharedVars, msg_id, rcv_size, doc, width, height,
                 img_buffer, to_send, closed, sent, resp, handled, drained,
                 published, latest, acked, drain_mark>>

\* One pass of the loop `while len(view) > 0`: a zero-length receive leaves
\* the view as it is and the loop goes round again.
RecvBody ==
  /\ pc_net = "recv_body"
  /\ \E b \in RecvResults(view_len) :
       /\ wire' = Drop(wire, Len(b))
       /\ consumed' = consumed + Len(b)
       /\ rcv_size' = Len(b)
       /\ data' = data \o b
       /\ view_len' = view_len - Len(b)
       /\ pc_net' = IF view_len - Len(b) > 0 THEN "recv_body" ELSE "decode"
       /\ recvd' = IF view_len - Len(b) > 0 THEN recvd ELSE Append(recvd, data \o b)
  /\ UNCHANGED <<mainVars, sharedVars, msg_id, doc, width, height, img_buffer,
                 to_send, closed, sent, resp, handled, drained, published, latest,
                 acked, drain_mark>>

Decode ==
  /\ pc_net = "decode"
  /\ IF JsonValid(data)
     THEN /\ doc' = JsonLoads(data)
          /\ pc_net' = "put"
     ELSE /\ pc_net' = "dead"
          /\ UNCHANGED doc
  /\ UNCHANGED <<mainVars, sharedVars, msg_id, view_len, data, rcv_size, width,
                 height, img_buffer, to_send, peerVars, histVars>>

\* self.data_handler(data), that is App.handle_data
HandleData ==
  /\ pc_net = "put"
  /\ queue' = QueuePut(queue, doc)
  /\ pc_net' = "ack"
  /\ UNCHANGED <<mainVars, image_lock, image_width, image_height, image_data,
                 msg_id, view_len, data, rcv_size, doc, width, height,
                 img_buffer, to_send, peerVars, histVars>>

LoopAgain == IF USE_THREAD THEN "recv_header" ELSE "dead"

\* The locals of one pass of the loop are dead once the response is
\* written: the next pass assigns each before it reads it.  They are
\* returned to their initial values on the way back to the loop head.
SendAck ==
  /\ pc_net = "ack"
  /\ resp' = resp \o <<ContentAck>>
  /\ acked' = acked + 1
  /\ pc_net' = LoopAgain
  /\ view_len' = 0
  /\ data' = <<>>
  /\ rcv_size' = 0
  /\ doc' = <<>>
  /\ UNCHANGED <<mainVars, sharedVars, msg_id, width, height, img_buffer,
                 to_send, peerVars, consumed, handled, recvd, drained,
                 published, latest, drain_mark>>

RecvDt ==
  /\ pc_net = "recv_dt"
  /\ \E b \in RecvResults(4) :
       /\ wire' = Drop(wire, Len(b))
       /\ consumed' = consumed + Len(b)
       /\ pc_net' = IF Len(b) = 4 THEN "lock_acquire" ELSE "dead"
  /\ UNCHANGED <<mainVars, sharedVars, msg_id, view_len, data, rcv_size, doc,
                 width, height, img_buffer, to_send, closed, sent, resp,
                 handled, recvd, drained, published, latest, acked, drain_mark>>

NetAcquire ==
  /\ pc_net = "lock_acquire"
  /\ CanAcquire
  /\ image_lock' = "net"
  /\ pc_net' = "get_width"
  /\ UNCHANGED <<mainVars, queue, image_width, image_height, image_data,
                 msg_id, view_len, data, rcv_size, doc, width, height,
                 img_buffer, to_send, peerVars, histVars>>

\* App.get_img builds its result from three attribute reads.
GetImgWidth ==
  /\ pc_net = "get_width"
  /\ width' = image_width
  /\ pc_net' = "get_height"
  /\ UNCHANGED <<mainVars, sharedVars, msg_id, view_len, data, rcv_size, doc,
                 height, img_buffer, to_send, peerVars, histVars>>

GetImgHeight ==
  /\ pc_net = "get_height"
  /\ height' = image_height
  /\ pc_net' = "get_data"
  /\ UNCHANGED <<mainVars, sharedVars, msg_id, view_len, data, rcv_size, doc,
                 width, img_buffer, to_send, peerVars, histVars>>

GetImgData ==
  /\ pc_net = "get_data"
  /\ img_buffer' = image_data
  /\ pc_net' = "send_header"
  /\ UNCHANGED <<mainVars, sharedVars, msg_id, view_len, data, rcv_size, doc,
                 width, height, to_send, peerVars, histVars>>

\* self.socket.send(struct.pack('=HH', width, height)): one send call.
SendHeader ==
  /\ pc_net = "send_header"
  /\ \E k \in SendResults(PackHeader(width, height)) :
       resp' = resp \o Take(PackHeader(width, height), k)
  /\ to_send' = img_buffer
  /\ pc_net' = "sendall"
  /\ UNCHANGED <<mainVars, sharedVars, msg_id, view_len, data, rcv_size, doc,
                 width, height, img_buffer, peerVars, consumed, handled, recvd,
                 drained, published, latest, acked, drain_mark>>

\* self.socket.sendall(img_buffer): send calls repeated until all is written.
SendAll ==
  /\ pc_net = "sendall"
  /\ \E k \in SendResults(to_send) :
       /\ resp' = resp \o Take(to_send, k)
       /\ to_send' = Drop(to_send, k)
       /\ pc_net' = IF k = Len(to_send) THEN "release" ELSE "sendall"
  /\ UNCHANGED <<mainVars, sharedVars, msg_id, view_len, data, rcv_size, doc,
                 width, height, img_buffer, peerVars, consumed, handled, recvd,
                 drained, published, latest, acked, drain_mark>>

NetRelease ==
  /\ pc_net = "release"
  /\ image_lock' = "free"
  /\ pc_net' = LoopAgain
  /\ width' = 0
  /\ height' = 0
  /\ img_buffer' = <<>>
  /\ resp' = <<>>
  /\ UNCHANGED <<mainVars, queue, image_width, image_height, image_data,
                 msg_id, view_len, data, rcv_size, doc, to_send, peerVars,
                 consumed, handled, recvd, drained, published, latest, acked,
                 drain_mark>>

SendUnknownAck ==
  /\ pc_net = "unknown_ack"
  /\ resp' = resp \o <<UnknownAck>>
  /\ pc_net' = LoopAgain
  /\ UNCHANGED <<mainVars, sharedVars, msg_id, view_len, data, rcv_size, doc,
                 width, height, img_buffer, to_send, peerVars, consumed,
                 handled, recvd, drained, published, latest, acked, drain_mark>>

\* A socket call raises (the 5 s timeout of line 33, a reset, a broken
\* pipe): the exception is caught nowhere and ends the thread.
SocketError ==
  /\ pc_net \in IOStates
  /\ pc_net' = "dead"
  /\ UNCHANGED <<mainVars, sharedVars, msg_id, view_len, data, rcv_size, doc,
                 width, height, img_buffer, to_send, peerVars, histVars>>

NetStep ==
  \/ RecvHeader \/ RecvSize \/ RecvBody \/ Decode \/ HandleData \/ SendAck
  \/ RecvDt \/ NetAcquire \/ GetImgWidth \/ GetImgHeight \/ GetImgData
  \/ SendHeader \/ SendAll \/ NetRelease \/ SendUnknownAck

\* -------------------------------------------------------- App, render side
\* App.make_offscreen(sx, sy) keeps the window when it has the size asked.
\* (KeepsWindowNever: the early return is missing)
KeepsWindowNever(sx, sy) == FALSE
KeepsWindow(sx, sy) == win[1] = sx /\ win[2] = sy

\* self.texture = p3d.Texture() of make_offscreen: no RAM image yet.
\* (StaleTexture: the texture of the window that was removed is kept)
StaleTexture == texture
NewTexture == NoTexture

\* self.view_region.set_clear_color(self.bg) after the update.
\* (RegionClearColorStale: the colour the region had is left in place)
RegionClearColorStale(c) == clear_color
RegionClearColor(c) == c

\* self.server.is_alive()
\* (IsAliveAlways: a monitor that never sees the thread end)
IsAliveAlways == TRUE
IsAlive == pc_net # "dead"

\* converter.update(data) followed by the read of converter.background_color
ConverterBackground(d) ==
  IF d.background # <<>> THEN d.background[1] ELSE background_color

\* Entry of the conversion task, once per render tick.
ConvBegin ==
  /\ pc_main = "conversion"
  /\ pc_main' = "conv_loop"
  /\ drain_mark' = acked
  /\ UNCHANGED <<remaining_attempts, attempts, exit_code, win, win_id, conv_data, texture,
                 clear_color, bg, background_color, sharedVars, netVars,
                 peerVars, resp, consumed, handled, recvd, drained, published, latest,
                 acked>>

\* while not self.conversion_queue.empty()
ConvEmpty ==
  /\ pc_main = "conv_loop"
  /\ pc_main' = IF QueueEmpty(queue) THEN "publish" ELSE "conv_get"
  /\ UNCHANGED <<remaining_attempts, attempts, exit_code, win, win_id, conv_data, texture,
                 clear_color, bg, background_color, sharedVars, netVars,
                 peerVars, histVars>>

\* The first half of the loop body: get() (which blocks on an empty
\* queue) and the width/height directive of extras.view, served by
\* make_offscreen.  A new window gets a new display region, cleared to
\* self.bg, and a new render texture.
ConvBody ==
  /\ pc_main = "conv_get"
  /\ Len(queue) > 0
  /\ LET d == Head(queue)
         resize == d.view # <<>> /\ ~KeepsWindow(d.view[1], d.view[2])
     IN /\ queue' = Tail(queue)
        /\ drained' = Append(drained, d)
        /\ conv_data' = d
        /\ win' = IF resize THEN d.view ELSE win
        /\ win_id' = IF resize THEN win_id + 1 ELSE win_id
        /\ texture' = IF resize THEN NewTexture ELSE texture
        /\ clear_color' = IF resize THEN bg ELSE clear_color
  /\ pc_main' = "conv_update"
  /\ UNCHANGED <<remaining_attempts, attempts, exit_code, bg, background_color,
                 image_lock, image_width, image_height, image_data, netVars,
                 peerVars, resp, consumed, handled, recvd, published, latest,
                 acked, drain_mark>>

\* The second half: converter.update(data), then self.bg and the clear
\* colour of self.view_region follow the converter's background colour.
ConvUpdate ==
  /\ pc_main = "conv_update"
  /\ background_color' = ConverterBackground(conv_data)
  /\ bg' = ConverterBackground(conv_data)
  /\ clear_color' = RegionClearColor(ConverterBackground(conv_data))
  /\ conv_data' = <<>>
  /\ pc_main' = "conv_loop"
  /\ UNCHANGED <<remaining_attempts, attempts, exit_code, win, win_id, texture,
                 sharedVars, netVars, peerVars, histVars>>

PubSkip ==
  /\ pc_main = "publish"
  /\ ~texture.has_ram_image
  /\ pc_main' = "server_mon"
  /\ UNCHANGED <<remaining_attempts, attempts, exit_code, win, win_id, conv_data, texture,
                 clear_color, bg, background_color, sharedVars, netVars,
                 peerVars, histVars>>

PubAcquire ==
  /\ pc_main = "publish"
  /\ texture.has_ram_image
  /\ CanAcquire
  /\ image_lock' = "main"
  /\ pc_main' = "pub_width"
  /\ UNCHANGED <<remaining_attempts, attempts, exit_code, win, win_id, conv_data, texture,
                 clear_color, bg, background_color, queue, image_width,
                 image_height, image_data, netVars, peerVars, histVars>>

PubWidth ==
  /\ pc_main = "pub_width"
  /\ image_width' = texture.x
  /\ pc_main' = "pub_height"
  /\ UNCHANGED <<remaining_attempts, attempts, exit_code, win, win_id, conv_data, texture,
                 clear_color, bg, background_color, queue, image_lock,
                 image_height, image_data, netVars, peerVars, histVars>>

PubHeight ==
  /\ pc_main = "pub_height"
  /\ image_height' = texture.y
  /\ pc_main' = "pub_data"
  /\ UNCHANGED <<remaining_attempts, attempts, exit_code, win, win_id, conv_data, texture,
                 clear_color, bg, background_color, queue, image_lock,
                 image_width, image_data, netVars, peerVars, histVars>>

PubData ==
  /\ pc_main = "pub_data"
  /\ image_data' = texture.image
  /\ published' = published \cup {<<image_width, image_height, texture.image>>}
  /\ latest' = <<image_width, image_height, texture.image>>
  /\ pc_main' = "pub_release"
  /\ UNCHANGED <<remaining_attempts, attempts, exit_code, win, win_id, conv_data, texture,
                 clear_color, bg, background_color, queue, image_lock,
                 image_width, image_height, netVars, peerVars, resp, consumed,
                 handled, recvd, drained, acked, drain_mark>>

PubRelease ==
  /\ pc_main = "pub_release"
  /\ image_lock' = "free"
  /\ pc_main' = "server_mon"
  /\ UNCHANGED <<remaining_attempts, attempts, exit_code, win, win_id, conv_data, texture,
                 clear_color, bg, background_color, queue, image_width,
                 image_height, image_data, netVars, peerVars, histVars>>

\* server_mon: sys.exit() once the Server thread is no longer alive.
ServerMon ==
  /\ pc_main = "server_mon"
  /\ IF ~IsAlive
     THEN /\ pc_main' = "exited"
          /\ exit_code' = <<ExitMonStatus>>
     ELSE /\ pc_main' = "render"
          /\ UNCHANGED exit_code
  /\ UNCHANGED <<remaining_attempts, attempts, win, win_id, conv_data, texture,
                 clear_color, bg, background_color, sharedVars, netVars,
                 peerVars, histVars>>

\* The frame is rendered and copied to the render texture's RAM image
\* (RTM_copy_ram); the next tick follows.
Render ==
  /\ pc_main = "render"
  /\ texture' = [has_ram_image |-> TRUE, x |-> win[1], y |-> win[2],
                 image |-> Pixels(win[1], win[2], clear_color)]
  /\ pc_main' = "conversion"
  /\ UNCHANGED <<remaining_attempts, attempts, exit_code, win, win_id, conv_data,
                 clear_color, bg, background_color, sharedVars, netVars,
                 peerVars, histVars>>

MainStep ==
  \/ ConnectOK \/ ConnectFail \/ ConnectExhausted
  \/ ConvBegin \/ ConvEmpty \/ ConvBody \/ ConvUpdate
  \/ PubSkip \/ PubAcquire \/ PubWidth \/ PubHeight \/ PubData \/ PubRelease
  \/ ServerMon \/ Render

PeerStep ==
  \/ \E m \in Messages : PeerSend(m)
  \/ \E m \in Messages : \E k \in CutPoints(m) : PeerSendTruncated(m, k)
  \/ PeerClose

Next == MainStep \/ NetStep \/ SocketError \/ PeerStep

Spec == Init /\ [][Next]_vars

\* Both threads are scheduled whenever they can run; socket errors and the
\* peer are under no obligation.
FairSpec == Spec /\ WF_vars(MainStep) /\ WF_vars(NetStep)

\* ================================================================ claims
Front(s) == SubSeq(s, 1, Len(s) - 1)

\* The documents of the bodies received so far, in order of arrival; a body
\* that does not parse ends the thread and yields no document.
RECURSIVE DecodeAll(_)
DecodeAll(s) ==
  IF s = <<>> THEN <<>>
  ELSE (IF JsonValid(Head(s)) THEN <<JsonLoads(Head(s))>> ELSE <<>>) \o DecodeAll(Tail(s))

SnapshotVars == <<image_width, image_height, image_data>>

DrainOver == pc_main \in {"publish", "pub_width", "pub_height", "pub_data",
                          "pub_release", "server_mon", "render"}

\* C1: the documents taken out by the render-tick drain, followed by those
\* still queued, are exactly the documents of the content updates received
\* so far, in the order received, each once (the one being decoded or
\* handed over at this moment excepted).
C1_FifoExactlyOnce ==
  LET arrived == IF pc_net \in {"decode", "put"} THEN Front(recvd) ELSE recvd
  IN drained \o queue = DecodeAll(arrived)

C1_Witness ==
  /\ Len(drained) = 2
  /\ drained[1] # drained[2]

\* C2: the triple the network thread sends on a frame request is one
\* complete published snapshot (or the initial one).
C2_NoTornSnapshot ==
  pc_net \in {"send_header", "sendall", "release"}
    => <<width, height, img_buffer>> \in published

C2_Witness ==
  /\ pc_net = "release"
  /\ <<width, height>> = <<1, 2>>
  /\ Cardinality(published) > 1

\* C3: the network thread writes to the socket only without the lock, and
\* the render path holds the lock only while it writes the three fields.
C3_LockNotHeldAcrossIO ==
  /\ pc_net \in {"send_header", "sendall"} => image_lock # "net"
  /\ image_lock = "main" =>
       pc_main \in {"pub_width", "pub_height", "pub_data", "pub_release"}

\* C4: once the network thread has ended, the monitor eventually sees it
\* and the process terminates.
C4_DeadThreadEndsProcess == (pc_net = "dead") ~> (pc_main = "exited")

\* C5: a disconnect inside the body of a content update ends the receive
\* loop without enqueueing or acknowledging, and the process shuts down.
MidBodyDisconnect == pc_net = "recv_body" /\ wire = <<>> /\ closed

C5_MidBodyDisconnectShutsDown ==
  /\ MidBodyDisconnect ~> (pc_net = "dead" /\ pc_main = "exited")
  /\ [][MidBodyDisconnect =>
          /\ Len(drained') + Len(queue') = Len(drained) + Len(queue)
          /\ resp' = resp]_vars

\* C6: at most 3 connect attempts are made; a success ends the retrying and
\* starts the receive loop; after 3 failures the process exits with a
\* non-zero status and the receive loop never starts.
C6_ConnectAtMostThree ==
  /\ [](/\ attempts <= 3
        /\ pc_net # "idle" => pc_main # "connect"
        /\ (pc_main = "exited" /\ pc_net = "idle") =>
             (attempts = 3 /\ exit_code # <<>> /\ exit_code # <<0>>))
  /\ [][/\ pc_main # "connect" => attempts' = attempts
        /\ (pc_main = "exited" /\ pc_net = "idle") => pc_net' = "idle"]_vars

C6_Witness ==
  /\ pc_main = "exited"
  /\ pc_net = "idle"
  /\ attempts = 3

\* C7: when the thread is about to read the next message it has written one
\* complete response to the previous one (a byte 0, or header and pixels),
\* and it has written nothing before the first request.
C7_HalfDuplex ==
  /\ handled = 0 => resp = <<>>
  /\ pc_net \in {"recv_size", "recv_body", "decode", "put", "recv_dt",
                 "lock_acquire", "get_width", "get_height", "get_data"}
       => resp = <<>>
  /\ (pc_net = "recv_header" /\ handled > 0 /\ msg_id # 1) => resp = <<0>>
  /\ pc_net = "release" => resp = PackHeader(width, height) \o img_buffer

\* C8: a content update is acknowledged with one byte 0 after its document
\* has been enqueued exactly once, and a drain begun after the
\* acknowledgement has taken the document out when it ends.
C8_AckAfterEnqueue ==
  /\ acked <= Len(drained) + Len(queue)
  /\ (pc_net = "recv_header" /\ handled > 0 /\ msg_id = 0) =>
       /\ resp = <<0>>
       /\ Len(drained) + Len(queue) = acked
       /\ (drained \o queue)[acked] = JsonLoads(recvd[Len(recvd)])
  /\ DrainOver => Len(drained) >= drain_mark

C8_Witness ==
  /\ pc_main = "conv_get"
  /\ drain_mark = 1
  /\ acked = 1
  /\ drained = <<>>
  /\ Len(queue) = 1

\* C9: an id other than 0 and 1 is answered with one byte 0, reads nothing
\* beyond the 2-byte id, leaves queue and snapshot unchanged, and the
\* thread goes back to reading the next message.
C9_UnknownIdAcked ==
  /\ []((pc_net \notin {"idle", "recv_header", "dead"} /\ msg_id \notin {0, 1})
          => (pc_net = "unknown_ack" /\ consumed = 2))
  /\ [][(pc_net = "unknown_ack" /\ pc_net' # pc_net) =>
          /\ queue' = queue
          /\ SnapshotVars' = SnapshotVars
          /\ wire' = wire
          /\ consumed' = 2
          /\ \/ pc_net' = "recv_header" /\ resp' = <<0>>
             \/ pc_net' = "dead" /\ resp' = resp]_vars

C9_Witness ==
  /\ pc_net = "recv_header"
  /\ msg_id = 7
  /\ resp = <<0>>
  /\ wire # <<>>

\* C10: the response to a frame request is the 4-byte header and exactly
\* width*height*3 pixel bytes, all delivered whatever each socket write
\* accepts; the stored pixel buffer has length width*height*3 whenever the
\* render path is not in the middle of writing it.
C10_FrameResponseComplete ==
  /\ pc_net = "release" =>
       /\ Len(resp) = 4 + width * height * 3
       /\ Take(resp, 4) = PackHeader(width, height)
       /\ Drop(resp, 4) = img_buffer
  /\ image_lock # "main" => Len(image_data) = image_width * image_height * 3

\* C11 (as stated): once a resize has been serviced the snapshot's width and
\* height equal the surface's, so no frame request reports other dimensions.
C11_SnapshotHasSurfaceSize ==
  image_lock # "main" => <<image_width, image_height>> = win

\* C11 (amended): the snapshot keeps the dimensions of the last published
\* frame until a frame rendered on the new surface is published; the render
\* texture, once it holds an image, has the surface's size, and after every
\* publish the snapshot's width and height are the surface's.
AfterPublish == pc_main \in {"pub_release", "server_mon", "render"}

C11_SnapshotFollowsSurface ==
  /\ texture.has_ram_image => <<texture.x, texture.y>> = win
  /\ (AfterPublish /\ texture.has_ram_image) =>
       <<image_width, image_height>> = win

C11_Witness ==
  /\ pc_main = "pub_release"
  /\ win = <<1, 2>>
  /\ win_id = 2
  /\ <<image_width, image_height>> = <<1, 2>>

\* C12: the triple read for a frame request is the most recently published
\* snapshot (the initial one before any publish), and the request waits for
\* nothing but a publish under way: never for a frame to be rendered.
C12_LatestSnapshotReturned ==
  /\ pc_net \in {"send_header", "sendall", "release"} =>
       <<width, height, img_buffer>> = latest
  /\ (pc_net = "lock_acquire" /\ ~CanAcquire) =>
       pc_main \in {"pub_width", "pub_height", "pub_data", "pub_release"}

C12_Witness ==
  /\ pc_net = "send_header"
  /\ latest # <<1, 1, <<0, 0, 0>>>>
  /\ <<width, height, img_buffer>> = latest

\* C13: a size request equal to the surface's size leaves surface, region
\* and render texture as they are (so two equal requests in a row recreate
\* at most once); a request of another size yields one new surface of
\* exactly that size; a document without a size leaves the surface alone.
ServesDocument == pc_main = "conv_get" /\ pc_main' = "conv_update"

C13_ResizeIdempotent ==
  [][ServesDocument =>
        IF conv_data'.view = <<>>
        THEN win' = win /\ win_id' = win_id /\ texture' = texture
        ELSE /\ win' = conv_data'.view
             /\ win = conv_data'.view =>
                  (win_id' = win_id /\ texture' = texture /\ clear_color' = clear_color)
             /\ win # conv_data'.view =>
                  (win_id' = win_id + 1 /\ ~texture'.has_ram_image)]_vars

C13_Witness ==
  /\ pc_main = "conv_update"
  /\ Len(drained) = 2
  /\ drained[1].view = <<1, 2>>
  /\ drained[2].view = <<1, 2>>
  /\ win_id = 2

\* C14: a body that does not parse is fatal: its document is not enqueued,
\* no acknowledgement is written, nothing further is read, the thread ends
\* and the process terminates.  Termination is stated by a variant: once
\* the thread has ended on such a body the render side is never blocked,
\* each of its steps brings the monitor nearer, and the monitor then exits.
ParseFailed == Len(recvd) > 0 /\ ~JsonValid(recvd[Len(recvd)])

MonitorDistance ==
  4 * Len(queue) +
    CASE pc_main = "render" -> 12
      [] pc_main = "conversion" -> 11
      [] pc_main = "conv_loop" -> 10
      [] pc_main = "conv_get" -> 9
      [] pc_main = "conv_update" -> 12
      [] pc_main = "publish" -> 7
      [] pc_main = "pub_width" -> 6
      [] pc_main = "pub_height" -> 5
      [] pc_main = "pub_data" -> 4
      [] pc_main = "pub_release" -> 3
      [] pc_main = "server_mon" -> 2
      [] OTHER -> 0

C14_BadDocumentIsFatal ==
  /\ [](ParseFailed =>
          /\ pc_net \in {"decode", "dead"}
          /\ resp = <<>>
          /\ Len(drained) + Len(queue) = Len(recvd) - 1
          /\ pc_net = "decode" => ENABLED Decode
          /\ pc_main # "exited" => ENABLED MainStep)
  /\ [][ParseFailed =>
          /\ handled' = handled
          /\ consumed' = consumed
          /\ pc_net' \in {pc_net, "dead"}
          /\ pc_net = "dead" =>
               \/ MonitorDistance' < MonitorDistance
               \/ pc_main' = pc_main /\ MonitorDistance' = MonitorDistance]_vars

C14_Witness ==
  /\ ParseFailed
  /\ Len(recvd) = 2
  /\ pc_main = "exited"

\* C15: the render tick is never stalled by the network side: whenever the
\* render side waits for the snapshot lock, the network thread holds it
\* only for the copy of the three fields, never while it writes to the
\* socket and never after it has ended.
C15_RenderNeverWaitsForIO ==
  (pc_main = "publish" /\ texture.has_ram_image /\ ~CanAcquire) =>
    pc_net \in {"get_width", "get_height", "get_data", "release"}

\* C16: the drain never blocks.  A removal is attempted only on a queue
\* that still holds an element, also while the network thread is pushing;
\* on an empty queue the drain removes nothing and the tick goes on; the
\* render tick is the only consumer; and when the drain ends the queue is
\* empty, so every document queued before it began has been taken out.
C16_DrainNeverBlocks ==
  /\ [](/\ pc_main = "conv_get" => (Len(queue) > 0 /\ ENABLED ConvBody)
        /\ pc_main = "conv_loop" => ENABLED ConvEmpty
        /\ DrainOver => Len(drained) >= drain_mark)
  /\ [][/\ (pc_main = "conv_loop" /\ pc_main' # pc_main) =>
             /\ queue' = queue
             /\ drained' = drained
             /\ pc_main' = IF queue = <<>> THEN "publish" ELSE "conv_get"
        /\ queue' # queue =>
             \/ pc_main = "conv_get" /\ queue' = Tail(queue)
                  /\ drained' = Append(drained, Head(queue))
             \/ pc_net = "put" /\ Len(queue') > Len(queue)]_vars

C16_Witness ==
  /\ pc_main = "publish"
  /\ drain_mark = 2
  /\ Len(drained) = 2
  /\ queue = <<>>

\* C17: a step of the started network thread leaves the surface, the scene model
\* and the snapshot as they are, and changes the queue only by appending
\* the decoded document once; the snapshot is written only by the render
\* tick under the lock, and the queue shrinks only in the render tick.
RenderSide == <<win, win_id, texture, clear_color, bg, background_color>>

C17_NetworkThreadTouchesNothing ==
  [][/\ (pc_net # "idle" /\ netVars' # netVars) =>
          /\ RenderSide' = RenderSide
          /\ SnapshotVars' = SnapshotVars
          /\ pc_main' = pc_main
          /\ IF pc_net = "put" THEN queue' = Append(queue, doc)
                               ELSE queue' = queue
     /\ SnapshotVars' # SnapshotVars =>
          (image_lock = "main" /\ pc_main \in {"pub_width", "pub_height", "pub_data"})
     /\ Len(queue') < Len(queue) => pc_main = "conv_get"]_vars

C17_Witness ==
  /\ pc_net = "release"
  /\ handled = 2
  /\ acked = 1
  /\ Len(drained) + Len(queue) = 1

\* C18: the surface is resized in the step before the document is applied
\* to the scene model, and once the document is applied the clear colour of
\* the region in use is the scene model's background colour, also when the
\* document had the surface and its region made anew.
C18_ClearColorFollowsBackground ==
  /\ []((Len(drained) > 0 /\ pc_main # "conv_update") =>
          (clear_color = background_color /\ bg = background_color))
  /\ [][/\ (win' # win \/ win_id' # win_id) =>
             (pc_main = "conv_get" /\ pc_main' = "conv_update"
                /\ background_color' = background_color)
        /\ background_color' # background_color => pc_main = "conv_update"
        /\ (pc_main = "conv_update" /\ pc_main' # pc_main) =>
             /\ pc_main' = "conv_loop"
             /\ background_color' = ConverterBackground(conv_data)
             /\ clear_color' = background_color'
             /\ win' = win /\ win_id' = win_id]_vars

C18_Witness ==
  /\ pc_main = "conv_loop"
  /\ Len(drained) = 2
  /\ drained[1].background = <<7>>
  /\ drained[2].view = <<1, 2>>
  /\ win_id = 2
  /\ clear_color = 7

\* C19: the lock is released on every path: it is never held by a network
\* thread that has ended, and it is not held by the network thread when
\* that thread reads the next message header.
C19_LockAlwaysReleased ==
  /\ ~(pc_net = "dead" /\ image_lock = "net")
  /\ pc_net \in {"idle", "recv_header"} => image_lock # "net"

====
